---- MODULE Spec2Model ----
\* A model of the databox-go client (src/databox.go): KPI serialization, the
\* push path (Push, PushCtx, InsertAll) and the read path (LastPushes,
\* LastPushesCtx, LastPush, LastPushCtx), each call being one HTTP exchange
\* with a service that may answer anything, fail, or be canceled.
EXTENDS Integers, Sequences, FiniteSets, TLC

VARIABLES
    client,     \* the Client struct: PushToken, PushHost, HTTPClient
    calls,      \* per caller: the call in progress and its exchange
    kpi,        \* the KPI handed to KPI.ToJSONData (serialization runs)
    jsonData,   \* the map ToJSONData returned
    kstage      \* "input" before ToJSONData has run, "output" after

vars == <<client, calls, kpi, jsonData, kstage>>

----------------------------------------------------------------------------
\* Bounds of the model.

NumCallers == 2     \* concurrent callers of one Client
MaxKpis    == 2     \* longest record list handed to InsertAll
MaxN       == 2     \* largest limit handed to LastPushes
MaxHistory == 2     \* longest push history the service answers with

----------------------------------------------------------------------------
\* Program constants.

apiURL        == "https://push.databox.com"
clientVersion == "2.1.0"
MajorVersion  == "2"

----------------------------------------------------------------------------
\* JSON-representable values (interface{} in a payload map). A float32 is a
\* Num, or the NaN that json.Marshal rejects.

Num(n) == [t |-> "num", n |-> n, s |-> ""]
Str(s) == [t |-> "str", n |-> 0, s |-> s]
NaN    == [t |-> "nan", n |-> 0, s |-> ""]

EmptyMap == [k \in {} |-> Num(0)]

\* payload[key] = value on a Go map.
Put(m, k, v) == [x \in DOMAIN m \cup {k} |-> IF x = k THEN v ELSE m[x]]

\* for key, value := range attrs { payload[key] = value }
RECURSIVE WriteAttributes(_, _, _)
WriteAttributes(p, attrs, todo) ==
    IF todo = {} THEN p
    ELSE LET k == CHOOSE x \in todo : TRUE
         IN  WriteAttributes(Put(p, k, attrs[k]), attrs, todo \ {k})

\* for key, value := range metrics { payload["$"+key] = value }
RECURSIVE WriteMetrics(_, _, _)
WriteMetrics(p, metrics, todo) ==
    IF todo = {} THEN p
    ELSE LET k == CHOOSE x \in todo : TRUE
         IN  WriteMetrics(Put(p, "$" \o k, metrics[k]), metrics, todo \ {k})

ToJSONData_attrsLast(k) ==
    LET p2 == WriteMetrics(EmptyMap, k.Metrics, DOMAIN k.Metrics)
        p3 == IF k.Key # "" THEN Put(p2, "$" \o k.Key, k.Value) ELSE p2
        p4 == IF k.Date # "" THEN Put(p3, "date", Str(k.Date)) ELSE p3
        p5 == IF k.Unit # "" THEN Put(p4, "unit", Str(k.Unit)) ELSE p4
    IN  WriteAttributes(p5, k.Attributes, DOMAIN k.Attributes)

ToJSONData(k) ==
    LET p1 == WriteAttributes(EmptyMap, k.Attributes, DOMAIN k.Attributes)
        p2 == WriteMetrics(p1, k.Metrics, DOMAIN k.Metrics)
        p3 == IF k.Key # "" THEN Put(p2, "$" \o k.Key, k.Value) ELSE p2
        p4 == IF k.Date # "" THEN Put(p3, "date", Str(k.Date)) ELSE p3
        p5 == IF k.Unit # "" THEN Put(p4, "unit", Str(k.Unit)) ELSE p4
    IN  p5

----------------------------------------------------------------------------
\* Serialization runs: ToJSONData applied to every KPI of a bounded family.

AttrKeys    == {"$a", "date", "unit", "country"}
AttrVals    == {Str("US"), Num(7)}
MetricNames == {"a", "b"}
MetricVals  == {Num(1), Num(2)}
KeyNames    == {"", "a", "c"}
KeyVals     == {Num(0), Num(5)}
DateVals    == {"", "2006-01-02"}
UnitVals    == {"", "count"}

MapsOver(K, V) == UNION {[S -> V] : S \in SUBSET K}

KPIInputs ==
    [Key : KeyNames, Value : KeyVals, Metrics : MapsOver(MetricNames, MetricVals),
     Date : DateVals, Unit : UnitVals, Attributes : MapsOver(AttrKeys, AttrVals)]

ZeroKPI ==
    [Key |-> "", Value |-> Num(0), Metrics |-> EmptyMap, Date |-> "", Unit |-> "",
     Attributes |-> EmptyMap]

----------------------------------------------------------------------------
\* serializeKPIs and json.Marshal of a KPIWrap.

\* A Go slice or map that may be nil.
NilSlice      == [isNil |-> TRUE, items |-> <<>>]
MakeSlice     == [isNil |-> FALSE, items |-> <<>>]
AppendTo(s, x) == [isNil |-> FALSE, items |-> Append(s.items, x)]
NilMeta       == [isNil |-> TRUE, ensure_unique |-> FALSE]
UniqueMeta    == [isNil |-> FALSE, ensure_unique |-> TRUE]

\* error values: nil, or a message (a sequence of text pieces) and the
\* innermost error the %w chain wraps ("none" when nothing is wrapped).
NilErr         == [isNil |-> TRUE, text |-> <<>>, cause |-> "none"]
LibErr(t, c)   == [isNil |-> FALSE, text |-> <<t>>, cause |-> c]
ErrorsNew(t)   == [isNil |-> FALSE, text |-> t, cause |-> "none"]
\* fmt.Errorf(prefix + "%w", e)
Errorf(prefix, e) == [isNil |-> FALSE, text |-> prefix \o e.text, cause |-> e.cause]

HasNaN(m) == \E k \in DOMAIN m : m[k].t = "nan"

\* json.Marshal(wrap): data is null for a nil slice and an array otherwise,
\* meta is dropped by omitempty when the map is empty, and a NaN number is an
\* UnsupportedValueError.
MarshalKPIWrap(wrap) ==
    IF \E i \in 1..Len(wrap.Data.items) : HasNaN(wrap.Data.items[i])
    THEN [data |-> <<>>, err |-> LibErr("json: unsupported value: NaN", "json.UnsupportedValueError")]
    ELSE [data |-> ("data" :> (IF wrap.Data.isNil THEN [t |-> "null"]
                               ELSE [t |-> "array", items |-> wrap.Data.items]))
                   @@ (IF wrap.Meta.isNil THEN <<>>
                       ELSE "meta" :> [t |-> "object", ensure_unique |-> wrap.Meta.ensure_unique]),
          err |-> NilErr]

RECURSIVE AppendAll(_, _, _)
AppendAll(data, kpis, i) ==
    IF i > Len(kpis) THEN data
    ELSE AppendAll(AppendTo(data, ToJSONData(kpis[i])), kpis, i + 1)

serializeKPIs_metaAlways(kpis, forcePush) ==
    MarshalKPIWrap([Data |-> AppendAll(MakeSlice, kpis, 1),
                    Meta |-> [isNil |-> FALSE, ensure_unique |-> forcePush]])

serializeKPIs_nilData(kpis, forcePush) ==
    MarshalKPIWrap([Data |-> AppendAll(NilSlice, kpis, 1),
                    Meta |-> IF forcePush THEN UniqueMeta ELSE NilMeta])

serializeKPIs(kpis, forcePush) ==
    MarshalKPIWrap([Data |-> AppendAll(MakeSlice, kpis, 1),
                    Meta |-> IF forcePush THEN UniqueMeta ELSE NilMeta])

----------------------------------------------------------------------------
\* Response bodies and json.Unmarshal into the two target types.

Body(j, raw, id, type, message, items) ==
    [j |-> j, raw |-> raw, id |-> id, type |-> type, message |-> message, items |-> items]

BInvalid  == Body("invalid", "<html>", "", "", "", <<>>)      \* not JSON at all
BNull     == Body("null", "null", "", "", "", <<>>)           \* the literal null
BNumber   == Body("number", "42", "", "", "", <<>>)           \* a JSON number
BObjOK    == Body("object", "{id}", "16759470", "", "", <<>>)
BObjErr   == Body("object", "{type,message}", "", "invalid_json", "Invalid request body", <<>>)
BObjBad   == Body("object_illtyped", "{type:5}", "", "", "", <<>>)
BArrBad   == Body("array_illtyped", "[5]", "", "", "", <<>>)

\* Push history, most recent first: entry k, k-1, .., 1.
History(k) == [i \in 1..k |-> k - i + 1]
BArr(k)    == Body("array", "[" \o ToString(k) \o "]", "", "", "", History(k))

Bodies == {BInvalid, BNull, BNumber, BObjOK, BObjErr, BObjBad, BArrBad}
            \cup {BArr(k) : k \in 0..MaxHistory}

\* string(data) inside an error message.
Raw(b) == b.raw

Statuses == {199, 200, 299, 300}

\* *ResponseStatus values.
NilRS            == [isNil |-> TRUE, ID |-> "", Type |-> "", Message |-> ""]
RS(id, t, m)     == [isNil |-> FALSE, ID |-> id, Type |-> t, Message |-> m]

SyntaxErr == LibErr("invalid character", "json.SyntaxError")
TypeErr   == LibErr("cannot unmarshal", "json.UnmarshalTypeError")

\* var responseStatus = &ResponseStatus{}; json.Unmarshal(data, &responseStatus):
\* the target is a pointer to the pointer, so the literal null stores nil in
\* responseStatus and reports no error.
UnmarshalResponseStatus(b) ==
    CASE b.j = "invalid" -> [val |-> RS("", "", ""), err |-> SyntaxErr]
      [] b.j = "null"    -> [val |-> NilRS, err |-> NilErr]
      [] b.j = "object"  -> [val |-> RS(b.id, b.type, b.message), err |-> NilErr]
      [] OTHER           -> [val |-> RS("", "", ""), err |-> TypeErr]

\* lastPushes := make([]LastPush, 0); json.Unmarshal(response, &lastPushes):
\* the literal null stores a nil slice and reports no error.
UnmarshalLastPushes(b) ==
    CASE b.j = "invalid" -> [val |-> MakeSlice, err |-> SyntaxErr]
      [] b.j = "null"    -> [val |-> NilSlice, err |-> NilErr]
      [] b.j = "array"   -> [val |-> [isNil |-> FALSE, items |-> b.items], err |-> NilErr]
      [] OTHER           -> [val |-> MakeSlice, err |-> TypeErr]

----------------------------------------------------------------------------
\* The HTTP exchange of one call, as far as the transport has driven it.
\*   stage "pending":   HTTPClient.Do has not returned
\*         "do_err":    Do returned an error (cause)
\*         "responded": Do returned a response (status); ReadAll is running
\*         "read_err":  ReadAll returned an error (cause)
\*         "complete":  ReadAll returned the body

Xchg(stage, status, body, cause) ==
    [stage |-> stage, status |-> status, body |-> body, cause |-> cause]

NoBody  == Body("none", "", "", "", "", <<>>)
Pending == Xchg("pending", 0, NoBody, "none")

NoRequest ==
    [method |-> "", url |-> "", body |-> <<>>, UserAgent |-> "", Accept |-> "",
     ContentType |-> "", user |-> "", password |-> ""]

\* http.NewRequestWithContext and the four header lines of postRequest.
postRequestBuild(c, path, body) ==
    [method |-> "POST", url |-> apiURL \o path, body |-> body,
     UserAgent |-> "databox-go/" \o clientVersion,
     Accept |-> "application/vnd.databox.v" \o MajorVersion \o "+json",
     ContentType |-> "application/json",
     user |-> c.PushToken, password |-> ""]

\* http.NewRequestWithContext and the four header lines of getRequest.
getRequestBuild(c, path) ==
    [method |-> "GET", url |-> apiURL \o path, body |-> <<>>,
     UserAgent |-> "databox-go/" \o clientVersion,
     Accept |-> "application/vnd.databox.v" \o MajorVersion \o "+json",
     ContentType |-> "application/json",
     user |-> c.PushToken, password |-> ""]

NilCtxErr == LibErr("net/http: nil Context", "nil Context")

\* What a function is doing: blocked in Do or in ReadAll with the request it
\* sent (at = "do", "read"), or returned (at = "ret") with (val, err) or a panic.
BlockedAt(at, req)   == [at |-> at, req |-> req, panic |-> FALSE, val |-> NoBody, err |-> NilErr]
Returns(req, val, err) == [at |-> "ret", req |-> req, panic |-> FALSE, val |-> val, err |-> err]
Panics(req)          == [at |-> "ret", req |-> req, panic |-> TRUE, val |-> NoBody, err |-> NilErr]

postRequest(c, ctx, path, payload, x) ==
    LET req == postRequestBuild(c, path, payload) IN
    IF ctx = "nil"
    THEN Returns(NoRequest, NoBody, Errorf(<<"creating request object: ">>, NilCtxErr))
    ELSE IF x.stage = "pending" THEN BlockedAt("do", req)
    ELSE IF x.stage = "do_err"
    THEN Returns(req, NoBody, Errorf(<<"executing HTTP request: ">>, LibErr("Post", x.cause)))
    ELSE IF x.stage = "responded" THEN BlockedAt("read", req)
    ELSE IF x.stage = "read_err"
    THEN Returns(req, x.body, Errorf(<<"reading response body: ">>, LibErr("read", x.cause)))
    ELSE IF x.status < 200 \/ x.status > 299
    THEN LET u == UnmarshalResponseStatus(x.body) IN
         IF ~u.err.isNil
         THEN Returns(req, NoBody, Errorf(<<"can't unmarshal data[", Raw(x.body), "]: ">>, u.err))
         ELSE IF u.val.isNil THEN Panics(req)    \* responseStatus.Type on a nil pointer
         ELSE Returns(req, NoBody, ErrorsNew(<<u.val.Type, ": ", u.val.Message>>))
    ELSE Returns(req, x.body, NilErr)

getRequest_statusChecked(c, ctx, path, x) ==
    LET req == getRequestBuild(c, path) IN
    IF ctx = "nil"
    THEN Returns(NoRequest, NoBody, Errorf(<<"creating request object: ">>, NilCtxErr))
    ELSE IF x.stage = "pending" THEN BlockedAt("do", req)
    ELSE IF x.stage = "do_err"
    THEN Returns(req, NoBody, Errorf(<<"executing HTTP request: ">>, LibErr("Get", x.cause)))
    ELSE IF x.stage = "responded" THEN BlockedAt("read", req)
    ELSE IF x.stage = "read_err"
    THEN Returns(req, NoBody, Errorf(<<"reading response body: ">>, LibErr("read", x.cause)))
    ELSE IF x.status < 200 \/ x.status > 299
    THEN Returns(req, NoBody, ErrorsNew(<<x.body.type, ": ", x.body.message>>))
    ELSE Returns(req, x.body, NilErr)

getRequest(c, ctx, path, x) ==
    LET req == getRequestBuild(c, path) IN
    IF ctx = "nil"
    THEN Returns(NoRequest, NoBody, Errorf(<<"creating request object: ">>, NilCtxErr))
    ELSE IF x.stage = "pending" THEN BlockedAt("do", req)
    ELSE IF x.stage = "do_err"
    THEN Returns(req, NoBody, Errorf(<<"executing HTTP request: ">>, LibErr("Get", x.cause)))
    ELSE IF x.stage = "responded" THEN BlockedAt("read", req)
    ELSE IF x.stage = "read_err"
    THEN Returns(req, NoBody, Errorf(<<"reading response body: ">>, LibErr("read", x.cause)))
    ELSE Returns(req, x.body, NilErr)

----------------------------------------------------------------------------
\* The exported operations, as functions of the exchange so far.

\* LastPush values: entry k of the history, 0 for the zero value LastPush{}.
ZeroLastPush == [entry |-> 0]
Entry(k)     == [entry |-> k]

LastPushesCtx_v(c, ctx, n, x) ==
    LET r == getRequest(c, ctx, "/lastpushes?limit=" \o ToString(n), x) IN
    IF r.at # "ret" THEN BlockedAt(r.at, r.req)
    ELSE IF ~r.err.isNil
    THEN Returns(r.req, NilSlice,
                 ErrorsNew(<<"requesting /lastpushes from API: ">> \o r.err.text))
    ELSE LET u == UnmarshalLastPushes(r.val) IN
         IF ~u.err.isNil
         THEN Returns(r.req, NilSlice,
                      Errorf(<<"can't unmarshal response[", Raw(r.val), "]: ">>, u.err))
         ELSE Returns(r.req, u.val, NilErr)

LastPushesCtx(c, ctx, n, x) ==
    LET r == getRequest(c, ctx, "/lastpushes?limit=" \o ToString(n), x) IN
    IF r.at # "ret" THEN BlockedAt(r.at, r.req)
    ELSE IF ~r.err.isNil
    THEN Returns(r.req, NilSlice, Errorf(<<"requesting /lastpushes from API: ">>, r.err))
    ELSE LET u == UnmarshalLastPushes(r.val) IN
         IF ~u.err.isNil
         THEN Returns(r.req, NilSlice,
                      Errorf(<<"can't unmarshal response[", Raw(r.val), "]: ">>, u.err))
         ELSE Returns(r.req, u.val, NilErr)

LastPushes(c, n, x) == LastPushesCtx(c, "background", n, x)

LastPushCtx_noLenCheck(c, ctx, x) ==
    LET r == LastPushesCtx(c, ctx, 1, x) IN
    IF r.at # "ret" THEN BlockedAt(r.at, r.req)
    ELSE IF ~r.err.isNil THEN Returns(r.req, ZeroLastPush, r.err)
    ELSE IF Len(r.val.items) = 0 THEN Returns(r.req, ZeroLastPush, NilErr)
    ELSE Returns(r.req, Entry(r.val.items[1]), NilErr)

LastPushCtx(c, ctx, x) ==
    LET r == LastPushesCtx(c, ctx, 1, x) IN
    IF r.at # "ret" THEN BlockedAt(r.at, r.req)
    ELSE IF ~r.err.isNil THEN Returns(r.req, ZeroLastPush, r.err)
    ELSE IF Len(r.val.items) = 0
    THEN Returns(r.req, ZeroLastPush, ErrorsNew(<<"no last push">>))
    ELSE Returns(r.req, Entry(r.val.items[1]), NilErr)

LastPush(c, x) == LastPushCtx(c, "background", x)

PushCtx(c, ctx, k, x) ==
    LET ser == serializeKPIs(<<k>>, FALSE) IN
    IF ~ser.err.isNil
    THEN Returns(NoRequest, NilRS, Errorf(<<"preparing request: ">>, ser.err))
    ELSE LET r == postRequest(c, ctx, "/", ser.data, x) IN
         IF r.at # "ret" THEN BlockedAt(r.at, r.req)
         ELSE IF r.panic THEN Panics(r.req)
         ELSE IF ~r.err.isNil
         THEN Returns(r.req, NilRS, Errorf(<<"sending request: ">>, r.err))
         ELSE LET u == UnmarshalResponseStatus(r.val) IN
              IF ~u.err.isNil
              THEN Returns(r.req, NilRS,
                           Errorf(<<"can't unmarshal respoonse[", Raw(r.val), "]: ">>, u.err))
              ELSE Returns(r.req, u.val, NilErr)

Push(c, k, x) == PushCtx(c, "background", k, x)

InsertAll(c, ctx, kpis, forcePush, x) ==
    LET ser == serializeKPIs(kpis, forcePush) IN
    IF ~ser.err.isNil
    THEN Returns(NoRequest, NilRS, Errorf(<<"preparing request: ">>, ser.err))
    ELSE LET r == postRequest(c, ctx, "/", ser.data, x) IN
         IF r.at # "ret" THEN BlockedAt(r.at, r.req)
         ELSE IF r.panic THEN Panics(r.req)
         ELSE IF ~r.err.isNil
         THEN Returns(r.req, NilRS, Errorf(<<"sending request: ">>, r.err))
         ELSE LET u == UnmarshalResponseStatus(r.val) IN
              IF ~u.err.isNil
              THEN Returns(r.req, NilRS,
                           Errorf(<<"can't unmarshal respoonse[", Raw(r.val), "]: ">>, u.err))
              ELSE Returns(r.req, u.val, NilErr)

----------------------------------------------------------------------------
\* Callers and their calls.

Client0 == [PushToken |-> "token", PushHost |-> apiURL, HTTPClient |-> "transport"]

Callers  == 1..NumCallers
AltHost  == "http://localhost:8080"
Hosts    == {apiURL, AltHost}

PushOps == {"Push", "PushCtx", "InsertAll"}
ReadOps == {"LastPushes", "LastPushesCtx", "LastPush", "LastPushCtx"}

kVisits == [Key |-> "visits", Value |-> Num(42), Metrics |-> EmptyMap, Date |-> "",
            Unit |-> "count", Attributes |-> EmptyMap]
kSales  == [Key |-> "", Value |-> Num(0), Metrics |-> ("sales" :> Num(100)), Date |-> "",
            Unit |-> "", Attributes |-> ("country" :> Str("US"))]
kNaN    == [Key |-> "ratio", Value |-> NaN, Metrics |-> EmptyMap, Date |-> "",
            Unit |-> "", Attributes |-> EmptyMap]

CallKpis == {kVisits, kSales, kNaN}
KpiLists == UNION {[1..k -> CallKpis] : k \in 0..MaxKpis}

Input(op, kpis, forcePush, n, ctx) ==
    [op |-> op, kpis |-> kpis, forcePush |-> forcePush, n |-> n, ctx |-> ctx]

CallInputs ==
    {Input("Push", <<k>>, FALSE, 0, "background") : k \in CallKpis}
      \cup {Input("PushCtx", <<k>>, FALSE, 0, cx) : k \in CallKpis, cx \in {"nil", "live"}}
      \cup {Input("InsertAll", ks, f, 0, cx) :
                ks \in KpiLists, f \in BOOLEAN, cx \in {"nil", "live"}}
      \cup {Input("LastPushes", <<>>, FALSE, n, "background") : n \in 1..MaxN}
      \cup {Input("LastPushesCtx", <<>>, FALSE, n, cx) : n \in 1..MaxN, cx \in {"nil", "live"}}
      \cup {Input("LastPush", <<>>, FALSE, 0, "background")}
      \cup {Input("LastPushCtx", <<>>, FALSE, 0, cx) : cx \in {"nil", "live"}}

\* The call `in` on client c, run as far as exchange x lets it.
Run(in, c, x) ==
    CASE in.op = "Push"          -> Push(c, in.kpis[1], x)
      [] in.op = "PushCtx"       -> PushCtx(c, in.ctx, in.kpis[1], x)
      [] in.op = "InsertAll"     -> InsertAll(c, in.ctx, in.kpis, in.forcePush, x)
      [] in.op = "LastPushes"    -> LastPushes(c, in.n, x)
      [] in.op = "LastPushesCtx" -> LastPushesCtx(c, in.ctx, in.n, x)
      [] in.op = "LastPush"      -> LastPush(c, x)
      [] in.op = "LastPushCtx"   -> LastPushCtx(c, in.ctx, x)

NoRet == [panic |-> FALSE, val |-> NoBody, err |-> NilErr]

Idle ==
    [pc |-> "idle", in |-> Input("", <<>>, FALSE, 0, ""), nreq |-> 0,
     request |-> NoRequest, x |-> Pending, ret |-> NoRet]

\* The call of caller c after the exchange has moved to x.
AdvanceTo(c, in, x, r) ==
    [pc      |-> IF r.at = "ret" THEN "done" ELSE r.at,
     in      |-> in,
     nreq    |-> calls[c].nreq + (IF r.at = "do" THEN 1 ELSE 0),
     request |-> r.req,
     x       |-> x,
     ret     |-> [panic |-> r.panic, val |-> r.val, err |-> r.err]]

Advance(c, in, x) == AdvanceTo(c, in, x, Run(in, client, x))

CtxErr(ctx) == IF ctx = "canceled" THEN "context.Canceled" ELSE "context.DeadlineExceeded"
CtxDone(ctx) == ctx \in {"canceled", "deadline"}

Init ==
    /\ client = Client0
    /\ calls = [c \in Callers |-> Idle]
    /\ kpi = ZeroKPI
    /\ jsonData = EmptyMap
    /\ kstage = "input"

\* The owner assigns the exported PushHost field between calls.
SetPushHost(h) ==
    /\ \A c \in Callers : calls[c].pc = "idle"
    /\ client.PushHost # h
    /\ client' = [client EXCEPT !.PushHost = h]
    /\ UNCHANGED <<calls, kpi, jsonData, kstage>>

\* A caller enters one of the exported operations.
Start(c, in) ==
    /\ calls[c].pc = "idle"
    /\ calls' = [calls EXCEPT ![c] = Advance(c, in, Pending)]
    /\ UNCHANGED <<client, kpi, jsonData, kstage>>

\* The caller's context is canceled, or its deadline passes, in flight.
Cancel(c, why) ==
    /\ calls[c].pc \in {"do", "read"}
    /\ calls[c].in.ctx = "live"
    /\ calls' = [calls EXCEPT ![c].in.ctx = why]
    /\ UNCHANGED <<client, kpi, jsonData, kstage>>

\* HTTPClient.Do returns a response with some status.
DoResponse(c, status) ==
    /\ calls[c].pc = "do"
    /\ calls' = [calls EXCEPT ![c] =
                    Advance(c, calls[c].in, Xchg("responded", status, NoBody, "none"))]
    /\ UNCHANGED <<client, kpi, jsonData, kstage>>

DoError_resetsHost(c) ==
    /\ calls[c].pc = "do"
    /\ calls' = [calls EXCEPT ![c] =
                    Advance(c, calls[c].in, Xchg("do_err", 0, NoBody, "net"))]
    /\ client' = [client EXCEPT !.PushHost = apiURL]
    /\ UNCHANGED <<kpi, jsonData, kstage>>

\* HTTPClient.Do fails on the network.
DoError(c) ==
    /\ calls[c].pc = "do"
    /\ calls' = [calls EXCEPT ![c] =
                    Advance(c, calls[c].in, Xchg("do_err", 0, NoBody, "net"))]
    /\ UNCHANGED <<client, kpi, jsonData, kstage>>

\* HTTPClient.Do observes the done context and returns its error.
DoCtxError(c) ==
    /\ calls[c].pc = "do"
    /\ CtxDone(calls[c].in.ctx)
    /\ calls' = [calls EXCEPT ![c] =
                    Advance(c, calls[c].in,
                            Xchg("do_err", 0, NoBody, CtxErr(calls[c].in.ctx)))]
    /\ UNCHANGED <<client, kpi, jsonData, kstage>>

\* ioutil.ReadAll returns the whole body.
ReadOK(c, b) ==
    /\ calls[c].pc = "read"
    /\ calls' = [calls EXCEPT ![c] =
                    Advance(c, calls[c].in, Xchg("complete", calls[c].x.status, b, "none"))]
    /\ UNCHANGED <<client, kpi, jsonData, kstage>>

\* ioutil.ReadAll fails on the network.
ReadError(c) ==
    /\ calls[c].pc = "read"
    /\ calls' = [calls EXCEPT ![c] =
                    Advance(c, calls[c].in, Xchg("read_err", calls[c].x.status, NoBody, "net"))]
    /\ UNCHANGED <<client, kpi, jsonData, kstage>>

\* ioutil.ReadAll observes the done context and returns its error.
ReadCtxError(c) ==
    /\ calls[c].pc = "read"
    /\ CtxDone(calls[c].in.ctx)
    /\ calls' = [calls EXCEPT ![c] =
                    Advance(c, calls[c].in,
                            Xchg("read_err", calls[c].x.status, NoBody,
                                 CtxErr(calls[c].in.ctx)))]
    /\ UNCHANGED <<client, kpi, jsonData, kstage>>

\* The caller takes the result; it may call again.
Return(c) ==
    /\ calls[c].pc = "done"
    /\ calls' = [calls EXCEPT ![c] = Idle]
    /\ UNCHANGED <<client, kpi, jsonData, kstage>>

\* One caller, every input.
Next ==
    \/ \E h \in Hosts : SetPushHost(h)
    \/ \E in \in CallInputs : Start(1, in)
    \/ \E why \in {"canceled", "deadline"} : Cancel(1, why)
    \/ \E st \in Statuses : DoResponse(1, st)
    \/ DoError(1)
    \/ DoCtxError(1)
    \/ \E b \in Bodies : ReadOK(1, b)
    \/ ReadError(1)
    \/ ReadCtxError(1)
    \/ Return(1)

Spec == Init /\ [][Next]_vars

----------------------------------------------------------------------------
\* Serialization runs: ToJSONData applied to each KPI of the family.

InitKPI ==
    /\ kpi \in KPIInputs
    /\ jsonData = EmptyMap
    /\ kstage = "input"
    /\ client = Client0
    /\ calls = [c \in Callers |-> Idle]

Serialize ==
    /\ kstage = "input"
    /\ jsonData' = ToJSONData(kpi)
    /\ kstage' = "output"
    /\ UNCHANGED <<client, calls, kpi>>

NextKPI == Serialize

SpecKPI == InitKPI /\ [][NextKPI]_vars

\* The value the five sources assign to output key k, by precedence.
Expected(k, x) ==
    IF x = "unit" /\ k.Unit # "" THEN Str(k.Unit)
    ELSE IF x = "date" /\ k.Date # "" THEN Str(k.Date)
    ELSE IF k.Key # "" /\ x = "$" \o k.Key THEN k.Value
    ELSE IF \E m \in DOMAIN k.Metrics : x = "$" \o m
         THEN k.Metrics[CHOOSE m \in DOMAIN k.Metrics : x = "$" \o m]
    ELSE k.Attributes[x]

ExpectedKeys(k) ==
    DOMAIN k.Attributes
      \cup {"$" \o m : m \in DOMAIN k.Metrics}
      \cup (IF k.Key # "" THEN {"$" \o k.Key} ELSE {})
      \cup (IF k.Date # "" THEN {"date"} ELSE {})
      \cup (IF k.Unit # "" THEN {"unit"} ELSE {})

\* C3: the output of ToJSONData has exactly the keys its five sources produce,
\* and each key holds the value of the highest-precedence source that writes
\* it: unit, date, then "$"+key -> value, then "$"+m -> metrics[m], then the
\* attribute of that name.
C3_Precedence ==
    kstage = "output" =>
        /\ DOMAIN jsonData = ExpectedKeys(kpi)
        /\ \A x \in DOMAIN jsonData : jsonData[x] = Expected(kpi, x)

\* An attribute "$a", a metrics entry a and key a all collide; value wins.
C3_Witness ==
    /\ kstage = "output"
    /\ "$a" \in DOMAIN kpi.Attributes
    /\ "a" \in DOMAIN kpi.Metrics
    /\ kpi.Key = "a"
    /\ kpi.Metrics["a"] # kpi.Value
    /\ jsonData["$a"] = kpi.Value
    /\ "date" \in DOMAIN kpi.Attributes /\ kpi.Date # ""

----------------------------------------------------------------------------
\* Concurrent callers, a small family of inputs.

ConcInputs ==
    {Input("Push", <<kVisits>>, FALSE, 0, "background"),
     Input("LastPushCtx", <<>>, FALSE, 0, "live")}
ConcStatuses == {200, 300}
ConcBodies   == {BNull, BObjErr, BArr(1)}

NextConc ==
    \/ \E h \in Hosts : SetPushHost(h)
    \/ \E c \in Callers :
          \/ \E in \in ConcInputs : Start(c, in)
          \/ Cancel(c, "canceled")
          \/ \E st \in ConcStatuses : DoResponse(c, st)
          \/ DoError(c)
          \/ DoCtxError(c)
          \/ \E b \in ConcBodies : ReadOK(c, b)
          \/ ReadError(c)
          \/ ReadCtxError(c)
          \/ Return(c)

SpecConc == Init /\ [][NextConc]_vars

\* One caller; the transport honours a done context: Do and ReadAll return
\* once the request's context is done.
SpecLive ==
    /\ Init /\ [][Next]_vars
    /\ WF_vars(DoCtxError(1))
    /\ WF_vars(ReadCtxError(1))

----------------------------------------------------------------------------
\* Properties.

Call(c)      == calls[c]
IsDone(c)    == calls[c].pc = "done"
InFlight(c)  == calls[c].pc \in {"do", "read"}
\* The service's whole answer, status and body, reached the call.
Answered(c)  == IsDone(c) /\ calls[c].x.stage = "complete"
Non2xx(c)    == calls[c].x.status < 200 \/ calls[c].x.status > 299
\* The done context ended the exchange.
Aborted(c)   == /\ calls[c].x.stage \in {"do_err", "read_err"}
                /\ calls[c].x.cause \in {"context.Canceled", "context.DeadlineExceeded"}

Contains(text, sub) ==
    \E i \in 1..(Len(text) - Len(sub) + 1) : SubSeq(text, i, i + Len(sub) - 1) = sub

JSONErrors == {"json.SyntaxError", "json.UnmarshalTypeError"}

\* The path each operation requests.
PathOf(in) ==
    IF in.op \in PushOps THEN "/"
    ELSE IF in.op \in {"LastPush", "LastPushCtx"} THEN "/lastpushes?limit=1"
    ELSE "/lastpushes?limit=" \o ToString(in.n)

\* C1: on the push path, an answer with a status outside 200..299 makes the
\* call return an error and a nil ResponseStatus whatever the body is; the
\* error text contains "<type>: <message>" when the body is a {type, message}
\* object, and the error is a JSON decode error when the body is not JSON.
C1_Non2xxIsError ==
    \A c \in Callers :
        (Answered(c) /\ Call(c).in.op \in PushOps /\ Non2xx(c)) =>
            /\ ~Call(c).ret.panic
            /\ ~Call(c).ret.err.isNil
            /\ Call(c).ret.val = NilRS
            /\ Call(c).x.body.j = "object" =>
                   Contains(Call(c).ret.err.text,
                            <<Call(c).x.body.type, ": ", Call(c).x.body.message>>)
            /\ Call(c).x.body.j = "invalid" => Call(c).ret.err.cause = "json.SyntaxError"

\* C2: every request a call issues goes to the Client's PushHost + path.
C2_RequestsGoToPushHost ==
    \A c \in Callers :
        Call(c).nreq > 0 => Call(c).request.url = client.PushHost \o PathOf(Call(c).in)

\* C4: the envelope a push-path call sends has a meta field exactly when the
\* call is InsertAll with forcePush set, and that meta is {ensure_unique: true};
\* Push and PushCtx never send one.
C4_MetaIffForcePush ==
    \A c \in Callers :
        Call(c).request.method = "POST" =>
            /\ ("meta" \in DOMAIN Call(c).request.body)
                  <=> (Call(c).in.op = "InsertAll" /\ Call(c).in.forcePush)
            /\ "meta" \in DOMAIN Call(c).request.body =>
                  Call(c).request.body["meta"] = [t |-> "object", ensure_unique |-> TRUE]

C4_Witness ==
    \E c \in Callers :
        /\ Call(c).in.op = "InsertAll" /\ Call(c).in.forcePush
        /\ Len(Call(c).in.kpis) = 1
        /\ Call(c).nreq = 1
        /\ "meta" \in DOMAIN Call(c).request.body

Marshalable(kpis) == \A i \in 1..Len(kpis) : ~HasNaN(ToJSONData(kpis[i]))

\* C5: an InsertAll call with a usable context and encodable records, the
\* empty list included, sends exactly one POST whose envelope's data field is
\* an array (never null or absent) with one entry per record, in input order.
C5_DataPerRecord ==
    \A c \in Callers :
        (/\ Call(c).pc # "idle" /\ Call(c).in.op = "InsertAll"
         /\ Call(c).in.ctx # "nil" /\ Marshalable(Call(c).in.kpis)) =>
            /\ Call(c).nreq = 1
            /\ Call(c).request.method = "POST"
            /\ "data" \in DOMAIN Call(c).request.body
            /\ Call(c).request.body["data"].t = "array"
            /\ Len(Call(c).request.body["data"].items) = Len(Call(c).in.kpis)
            /\ \A i \in 1..Len(Call(c).in.kpis) :
                  Call(c).request.body["data"].items[i] = ToJSONData(Call(c).in.kpis[i])

C5_Witness ==
    \E c \in Callers :
        /\ Call(c).in.op = "InsertAll" /\ Call(c).in.kpis = <<>>
        /\ Call(c).nreq = 1
        /\ Call(c).request.body["data"] = [t |-> "array", items |-> <<>>]

\* C6: LastPush and LastPushCtx request limit=1; answered with a non-empty
\* list they return its first element and no error, and answered with an empty
\* list they return the zero LastPush with the error "no last push", which
\* wraps no decode error.
C6_LastPushFirstOrEmpty ==
    \A c \in Callers :
        (/\ Answered(c) /\ Call(c).in.op \in {"LastPush", "LastPushCtx"}
         /\ Call(c).x.body.j = "array") =>
            /\ Call(c).request.url = apiURL \o "/lastpushes?limit=1"
            /\ ~Call(c).ret.panic
            /\ IF Len(Call(c).x.body.items) = 0
               THEN /\ Call(c).ret.err = ErrorsNew(<<"no last push">>)
                    /\ Call(c).ret.val = ZeroLastPush
               ELSE /\ Call(c).ret.err.isNil
                    /\ Call(c).ret.val = Entry(Call(c).x.body.items[1])

C6_Witness ==
    \E c \in Callers :
        /\ Answered(c) /\ Call(c).in.op = "LastPush"
        /\ Call(c).x.body = BArr(0)
        /\ Call(c).ret.err.text = <<"no last push">>

\* C7: a call whose context is done while it is in flight eventually
\* returns; and when the done context ended the exchange, the call returns an
\* error, never a result, that is the transport's error and wraps the
\* context's error.
C7_CancelReturns ==
    /\ \A c \in Callers : (InFlight(c) /\ CtxDone(Call(c).in.ctx)) ~> IsDone(c)
    /\ [](\A c \in Callers :
            (IsDone(c) /\ Aborted(c)) =>
                /\ ~Call(c).ret.panic
                /\ ~Call(c).ret.err.isNil
                /\ Call(c).ret.err.cause = CtxErr(Call(c).in.ctx)
                /\ \/ Contains(Call(c).ret.err.text, <<"executing HTTP request: ">>)
                   \/ Contains(Call(c).ret.err.text, <<"reading response body: ">>))

C7_Witness ==
    \E c \in Callers :
        /\ IsDone(c) /\ Aborted(c)
        /\ Call(c).in.op = "LastPushesCtx"
        /\ Call(c).in.ctx = "deadline"
        /\ Call(c).x.stage = "read_err"
        /\ Call(c).ret.err.cause = "context.DeadlineExceeded"

\* C8 as stated: an answered LastPushes call succeeds exactly when the body
\* is a JSON array and fails with a decode error otherwise, at every status.
C8_ArrayOrDecodeError ==
    \A c \in Callers :
        (Answered(c) /\ Call(c).in.op \in {"LastPushes", "LastPushesCtx"}) =>
            /\ ~Call(c).ret.panic
            /\ Call(c).ret.err.isNil
                  <=> Call(c).x.body.j \in {"array", "array_illtyped"}
            /\ ~Call(c).ret.err.isNil => Call(c).ret.err.cause \in JSONErrors

\* C8 amended: an answered LastPushes call returns, at every status, the
\* body's entries when the body is a JSON array of well-typed entries or the
\* literal null (an empty list), and a JSON decode error otherwise; its error
\* never carries the body's "<type>: <message>".
C8_StatusIgnored ==
    \A c \in Callers :
        (Answered(c) /\ Call(c).in.op \in {"LastPushes", "LastPushesCtx"}) =>
            /\ ~Call(c).ret.panic
            /\ IF Call(c).x.body.j \in {"array", "null"}
               THEN /\ Call(c).ret.err.isNil
                    /\ Call(c).ret.val.items = Call(c).x.body.items
               ELSE /\ ~Call(c).ret.err.isNil
                    /\ Call(c).ret.err.cause \in JSONErrors
                    /\ ~Contains(Call(c).ret.err.text,
                                 <<Call(c).x.body.type, ": ", Call(c).x.body.message>>)

C8_Witness ==
    \E c \in Callers :
        /\ Answered(c) /\ Call(c).in.op = "LastPushes"
        /\ Call(c).x.status = 300
        /\ Call(c).x.body = BArr(2)
        /\ Call(c).ret.err.isNil
        /\ Call(c).ret.val.items = <<2, 1>>

\* The exchange of a done call failed: in the transport, by a status outside
\* 200..299 on the push path, or by a body the operation cannot decode.
Failed(c) ==
    \/ Call(c).x.stage \in {"do_err", "read_err"}
    \/ /\ Call(c).x.stage = "complete"
       /\ \/ Call(c).in.op \in PushOps /\ Non2xx(c)
          \/ Call(c).in.op \in PushOps
               /\ Call(c).x.body.j \notin {"object", "null"}
          \/ Call(c).in.op \in ReadOps
               /\ Call(c).x.body.j \notin {"array", "null"}

\* C9: a call issues at most one HTTP request, exactly one once it is past
\* building the request, and a done call whose exchange failed returns that
\* failure as its error.
C9_OneRequestErrorReturned ==
    \A c \in Callers :
        /\ Call(c).nreq <= 1
        /\ InFlight(c) => Call(c).nreq = 1
        /\ (IsDone(c) /\ Call(c).nreq = 1 /\ Failed(c)) =>
               ~Call(c).ret.panic /\ ~Call(c).ret.err.isNil

\* C10: no step of any call, failed or not, of any caller changes the
\* Client's fields; and two done calls with the same arguments and the same
\* exchange have the same outcome, whatever happened before them.
C10_ClientUnchanged ==
    /\ [][calls' # calls => client' = client]_vars
    /\ [](\A c, d \in Callers :
            (IsDone(c) /\ IsDone(d) /\ Call(c).in = Call(d).in /\ Call(c).x = Call(d).x)
                => Call(c).ret = Call(d).ret)

C10_Witness ==
    /\ client.PushHost = AltHost
    /\ IsDone(1) /\ ~Call(1).ret.err.isNil /\ Call(1).x.stage = "do_err"
    /\ InFlight(2)

====
